---------------------------- MODULE Spec2Model ----------------------------
(***************************************************************************)
(* Model of package env (github.com/elum-utils/env): the startup scan of   *)
(* *.env files into the in-memory overlay envMap (func init) and the       *)
(* typed accessors GetEnv* that resolve a key through the process          *)
(* environment, then the overlay, then the caller's default.               *)
(*                                                                         *)
(* A Go string is modelled as a sequence of one-character strings, so      *)
(* "a=b" is <<"a", "=", "b">> and "" is <<>>.  Positions are 1-based.      *)
(***************************************************************************)
EXTENDS Integers, Sequences, FiniteSets, TLC

-----------------------------------------------------------------------------
(* Library functions of package strings, as the source uses them.          *)

\* unicode.IsSpace restricted to the characters of the model's alphabet.
IsSpace(c) == c \in {" ", "\t"}

RECURSIVE TrimLeft(_)
TrimLeft(s) ==
    IF s # <<>> /\ IsSpace(Head(s)) THEN TrimLeft(Tail(s)) ELSE s

RECURSIVE TrimRight(_)
TrimRight(s) ==
    IF s # <<>> /\ IsSpace(s[Len(s)])
    THEN TrimRight(SubSeq(s, 1, Len(s) - 1))
    ELSE s

\* strings.TrimSpace
TrimSpace(s) == TrimRight(TrimLeft(s))

\* strings.HasPrefix
HasPrefix(s, prefix) ==
    Len(s) >= Len(prefix) /\ SubSeq(s, 1, Len(prefix)) = prefix

\* strings.Index, 1-based: the position of the first occurrence of sep in s,
\* 0 when there is none (Go: 0-based, -1 when there is none).
Index(s, sep) ==
    LET hits == {i \in 1..(Len(s) - Len(sep) + 1) :
                     SubSeq(s, i, i + Len(sep) - 1) = sep}
    IN  IF hits = {} THEN 0 ELSE CHOOSE i \in hits : \A j \in hits : i <= j

\* strings.explode(s, n): s cut into single characters, at most n pieces, the
\* last piece holding the rest; n < 0 means no limit.
explode(s, n) ==
    LET l == Len(s)
        k == IF n < 0 \/ n > l THEN l ELSE n
    IN  [i \in 1..k |-> IF i < k THEN <<s[i]>> ELSE SubSeq(s, i, l)]

\* The loop of strings.genSplit for a non-empty separator: cut at each
\* leftmost occurrence of sep until n pieces are made (n < 0: no limit).
RECURSIVE splitLoop(_, _, _)
splitLoop(s, sep, n) ==
    LET m == Index(s, sep)
    IN  IF n = 1 \/ m = 0
        THEN <<s>>
        ELSE <<SubSeq(s, 1, m - 1)>>
             \o splitLoop(SubSeq(s, m + Len(sep), Len(s)), sep,
                          IF n < 0 THEN n ELSE n - 1)

\* strings.genSplit(s, sep, 0, n)
genSplit(s, sep, n) ==
    IF n = 0 THEN <<>>
    ELSE IF sep = <<>> THEN explode(s, n)
    ELSE splitLoop(s, sep, n)

\* strings.Split(s, sep)
Split(s, sep) == genSplit(s, sep, -1)

\* strings.SplitN(s, sep, n)
SplitN(s, sep, n) == genSplit(s, sep, n)

-----------------------------------------------------------------------------
(* Conversions of packages strconv and time.  Each returns a record        *)
(* [ok, val]: ok = FALSE stands for a non-nil err.                         *)

DigitChars == <<"0", "1", "2", "3", "4", "5", "6", "7", "8", "9">>

IsDigit(c) == \E i \in 1..Len(DigitChars) : DigitChars[i] = c

DigitVal(c) == (CHOOSE i \in 1..Len(DigitChars) : DigitChars[i] = c) - 1

AllDigits(s) == \A i \in 1..Len(s) : IsDigit(s[i])

\* The value of a string of decimal digits (0 for the empty string).
RECURSIVE DecVal(_)
DecVal(s) ==
    IF s = <<>> THEN 0
    ELSE 10 * DecVal(SubSeq(s, 1, Len(s) - 1)) + DigitVal(s[Len(s)])

\* The longest prefix of s made of digits, as a length.
RECURSIVE DigitRun(_)
DigitRun(s) ==
    IF s # <<>> /\ IsDigit(Head(s)) THEN 1 + DigitRun(Tail(s)) ELSE 0

HasSign(s) == s # <<>> /\ s[1] \in {"+", "-"}

DropSign(s) == IF HasSign(s) THEN Tail(s) ELSE s

Failed == [ok |-> FALSE, val |-> <<>>]

Parsed(v) == [ok |-> TRUE, val |-> v]

\* strconv.Atoi: an optional sign and one or more decimal digits.  The
\* strings of the model are far shorter than the 19 digits that overflow.
Atoi(s) ==
    LET body == DropSign(s)
    IN  IF body = <<>> \/ ~AllDigits(body) THEN Failed
        ELSE Parsed(IF s[1] = "-" THEN 0 - DecVal(body) ELSE DecVal(body))

\* strconv.ParseBool: exactly these twelve spellings.
ParseBool(s) ==
    IF s \in {<<"1">>, <<"t">>, <<"T">>, <<"t", "r", "u", "e">>,
              <<"T", "R", "U", "E">>, <<"T", "r", "u", "e">>}
    THEN Parsed(TRUE)
    ELSE IF s \in {<<"0">>, <<"f">>, <<"F">>, <<"f", "a", "l", "s", "e">>,
                   <<"F", "A", "L", "S", "E">>, <<"F", "a", "l", "s", "e">>}
    THEN Parsed(FALSE)
    ELSE Failed

\* strconv.ParseFloat(s, 64), decimal form: [sign] digits [. digits]
\* [(e|E) [sign] digits] with at least one mantissa digit, the whole string
\* consumed.  The value is kept exactly as [neg, mant, exp10], standing for
\* (-1)^neg * mant * 10^exp10.  The alphabet of the model has no "n", "p" or
\* "_", so inf, nan, hexadecimal and underscored forms cannot be written.
ParseFloat(s) ==
    LET body  == DropSign(s)
        neg   == HasSign(s) /\ s[1] = "-"
        nInt  == DigitRun(body)
        r1    == SubSeq(body, nInt + 1, Len(body))
        dot   == r1 # <<>> /\ r1[1] = "."
        r2    == IF dot THEN Tail(r1) ELSE r1
        nFrac == IF dot THEN DigitRun(r2) ELSE 0
        r3    == SubSeq(r2, nFrac + 1, Len(r2))
        hasE  == r3 # <<>> /\ r3[1] \in {"e", "E"}
        r4    == IF hasE THEN Tail(r3) ELSE r3
        eNeg  == hasE /\ HasSign(r4) /\ r4[1] = "-"
        r5    == IF hasE THEN DropSign(r4) ELSE r4
        nExp  == IF hasE THEN DigitRun(r5) ELSE 0
        r6    == SubSeq(r5, nExp + 1, Len(r5))
        e     == DecVal(SubSeq(r5, 1, nExp))
        mant  == DecVal(SubSeq(body, 1, nInt) \o SubSeq(r2, 1, nFrac))
    IN  IF nInt + nFrac = 0 \/ (hasE /\ nExp = 0) \/ r6 # <<>> THEN Failed
        ELSE Parsed([neg |-> neg, mant |-> mant,
                     exp10 |-> (IF eNeg THEN 0 - e ELSE e) - nFrac])

\* time.Duration is a count of nanoseconds in 64 bits; the model keeps it as
\* the tuple <<h, m, s, ms, us, ns>> of that count written in mixed radix,
\* because one minute of nanoseconds does not fit TLC's 32-bit integers.
Radix == <<1, 60, 60, 1000, 1000, 1000>>

ZeroDuration == <<0, 0, 0, 0, 0, 0>>

\* time.unitMap (the two non-ASCII spellings of "us" are outside the
\* alphabet): the mixed-radix position of a unit, 0 for an unknown unit.
unitMap(u) ==
    CASE u = <<"h">>      -> 1
      [] u = <<"m">>      -> 2
      [] u = <<"s">>      -> 3
      [] u = <<"m", "s">> -> 4
      [] u = <<"u", "s">> -> 5
      [] u = <<"n", "s">> -> 6
      [] OTHER            -> 0

\* Carries of a mixed-radix count, from nanoseconds up to hours.
RECURSIVE Carry(_, _)
Carry(d, lvl) ==
    IF lvl = 1 THEN d
    ELSE Carry([d EXCEPT ![lvl] = @ % Radix[lvl],
                         ![lvl - 1] = @ + (d[lvl] \div Radix[lvl])],
               lvl - 1)

\* d + v * unit
AddUnits(d, lvl, v) == Carry([d EXCEPT ![lvl] = @ + v], Len(Radix))

\* d + (f / scale) * unit, truncated to whole nanoseconds: the part of
\* time.ParseDuration that adds float64(f) * (float64(unit) / scale).
RECURSIVE AddFraction(_, _, _, _)
AddFraction(d, lvl, f, scale) ==
    IF lvl = Len(Radix) \/ f = 0 THEN Carry(d, Len(Radix))
    ELSE LET x == f * Radix[lvl + 1]
         IN  AddFraction([d EXCEPT ![lvl + 1] = @ + (x \div scale)],
                         lvl + 1, x % scale, scale)

RECURSIVE Pow10(_)
Pow10(n) == IF n = 0 THEN 1 ELSE 10 * Pow10(n - 1)

\* The length of the unit name at the head of s: the characters up to the
\* next "." or digit.
RECURSIVE UnitRun(_)
UnitRun(s) ==
    IF s # <<>> /\ Head(s) # "." /\ ~IsDigit(Head(s))
    THEN 1 + UnitRun(Tail(s))
    ELSE 0

\* The loop of time.ParseDuration over the terms [digits][.digits]unit.
RECURSIVE durationLoop(_, _)
durationLoop(s, d) ==
    IF s = <<>> THEN Parsed(d)
    ELSE
      LET nPre  == DigitRun(s)
          v     == DecVal(SubSeq(s, 1, nPre))
          r1    == SubSeq(s, nPre + 1, Len(s))
          dot   == r1 # <<>> /\ r1[1] = "."
          r2    == IF dot THEN Tail(r1) ELSE r1
          nPost == IF dot THEN DigitRun(r2) ELSE 0
          f     == DecVal(SubSeq(r2, 1, nPost))
          r3    == SubSeq(r2, nPost + 1, Len(r2))
          nUnit == UnitRun(r3)
          lvl   == unitMap(SubSeq(r3, 1, nUnit))
      IN  IF nPre + nPost = 0 \/ nUnit = 0 \/ lvl = 0 THEN Failed
          ELSE durationLoop(
                   SubSeq(r3, nUnit + 1, Len(r3)),
                   AddFraction(AddUnits(d, lvl, v), lvl, f, Pow10(nPost)))

\* time.ParseDuration: [sign] then "0" or one or more terms.  The value is
\* [neg, d] with d the magnitude.
ParseDuration(s) ==
    LET body == DropSign(s)
        neg  == HasSign(s) /\ s[1] = "-"
        r    == durationLoop(body, ZeroDuration)
    IN  IF body = <<"0">> THEN Parsed([neg |-> FALSE, d |-> ZeroDuration])
        ELSE IF body = <<>> \/ ~r.ok THEN Failed
        ELSE Parsed([neg |-> neg /\ r.val # ZeroDuration, d |-> r.val])

-----------------------------------------------------------------------------
(* Bounds and input sets.                                                  *)

\* The most *.env files the executable's directory holds.
MaxFiles == 2

\* The names the host program sets, unsets and asks for.
KeyA == <<"A">>

KeyB == <<"B">>

EnvKeys == {KeyA, KeyB}

\* The raw values the host program gives a variable with os.Setenv.
EnvValues ==
    { <<>>,
      <<"1">>,
      <<"x">>,
      <<"1", "m">>,
      <<"1", ",", "2">>,
      <<"1", ",", "x", ",", "y">>,
      <<"1", "m", ",", "2", "h">>,
      <<"a", ":", "b", ",", "c", ":", "d">>,
      <<"a", ":", "b", ":", "c">>,
      <<" ", "a", " ", ":", " ", "b", " ", ",", "a", ":", "c", " ">> }

\* The delimiters a caller passes: non-empty strings.  (With an empty
\* separator strings.Split and strings.SplitN cut after every character,
\* which genSplit models but no call of the model asks for.)
Delimiters == { <<",">>, <<":">> }

\* The defaults a caller passes, per accessor.
StringDefaults == { <<>>, <<"d">> }

IntDefaults == { 0, 7 }

BoolDefaults == BOOLEAN

FloatDefaults == { [neg |-> FALSE, mant |-> 0, exp10 |-> 0],
                   [neg |-> FALSE, mant |-> 314, exp10 |-> -2] }

DurationDefaults == { [neg |-> FALSE, d |-> ZeroDuration],
                      [neg |-> FALSE, d |-> <<0, 0, 30, 0, 0, 0>>] }

ArrayStringDefaults == { <<>>, << <<"d">> >> }

ArrayIntDefaults == { <<>>, <<7>> }

ArrayDurationDefaults == { <<>>, << [neg |-> FALSE, d |-> <<0, 0, 30, 0, 0, 0>>] >> }

\* A Go map is a function on its set of keys; the empty map is <<>>.
EmptyMap == <<>>

MapDefaults == { EmptyMap, [k \in {<<"d", "e", "f">>} |-> <<"v">>] }

\* A file of the directory: whether os.Open succeeds, and its lines as
\* bufio.Scanner yields them (line ends removed).
File(openable, lines) == [openable |-> openable, lines |-> lines]

FileOne ==
    File(TRUE, << <<"A", "=", "1", "m">>,
                  <<"#", "B", "=", "x">>,
                  <<" ", "B", " ", "=", " ", "a", "=", "b", " ">> >>)

FileTwo ==
    File(TRUE, << <<"A", "=">>,
                  <<"B">>,
                  <<" ", "\t">>,
                  <<"=", "v">>,
                  <<"A", "=", "2">> >>)

FileLocked == File(FALSE, << <<"B", "=", "1">> >>)

FilePool == {FileOne, FileTwo, FileLocked}

RECURSIVE SeqsUpTo(_, _)
SeqsUpTo(S, n) ==
    IF n = 0 THEN { <<>> }
    ELSE LET shorter == SeqsUpTo(S, n - 1)
         IN  shorter \cup {Append(q, x) : q \in shorter, x \in S}

-----------------------------------------------------------------------------
(* State.                                                                  *)

VARIABLES
    osEnv,         \* the process environment: a function on the names set
    envMap,        \* the overlay loaded from the *.env files
    exeErr,        \* os.Executable returns an error
    globErr,       \* filepath.Glob returns an error
    files,         \* the files filepath.Glob finds, in its order
    pc,            \* where init is: "init", "open", "scan"; "run" once done
    fileIdx,       \* the file the range loop of init is at
    lineIdx,       \* the line the scanner of that file is at
    last,          \* the step taken last and its outcome
    scanned,       \* history: the pairs init parsed, with whether the key
                   \* was in the process environment at that moment
    setThroughout  \* history: the names set in the process environment at
                   \* every moment of the scan so far

vars == <<osEnv, envMap, exeErr, globErr, files, pc, fileIdx, lineIdx, last,
          scanned, setThroughout>>

\* m[key] = val of a Go map.
Put(m, key, val) ==
    [k \in DOMAIN m \cup {key} |-> IF k = key THEN val ELSE m[k]]

\* os.LookupEnv(key)
LookupEnv(key) ==
    IF key \in DOMAIN osEnv THEN [val |-> osEnv[key], ok |-> TRUE]
    ELSE [val |-> <<>>, ok |-> FALSE]

None == [kind |-> "none"]

Step(op, key, args, out) == [op |-> op, key |-> key, args |-> args, out |-> out]

-----------------------------------------------------------------------------
(* func init: the startup scan.                                            *)

NoPair == [ok |-> FALSE, key |-> <<>>, val |-> <<>>]

\* parseLine with strings.Split in place of strings.SplitN(line, "=", 2): a
\* value that holds "=" makes more than two parts and the line is dropped.
parseLineNoLimit(text) ==
    LET line == TrimSpace(text)
        kv   == Split(line, <<"=">>)
    IN  IF line = <<>> \/ HasPrefix(line, <<"#">>) THEN NoPair
        ELSE IF Len(kv) # 2 THEN NoPair
        ELSE [ok |-> TRUE, key |-> TrimSpace(kv[1]), val |-> TrimSpace(kv[2])]

\* The body of the scanner loop up to the pair it parses: the line trimmed,
\* blank lines and comments dropped, the rest cut at the first "=".
parseLine(text) ==
    LET line == TrimSpace(text)
        kv   == SplitN(line, <<"=">>, 2)
    IN  IF line = <<>> \/ HasPrefix(line, <<"#">>) THEN NoPair
        ELSE IF Len(kv) # 2 THEN NoPair
        ELSE [ok |-> TRUE, key |-> TrimSpace(kv[1]), val |-> TrimSpace(kv[2])]

\* loadPair without the os.LookupEnv test: every parsed pair goes in.
loadPairAlways(key, val) == Put(envMap, key, val)

\* loadPair keeping the first value the overlay got for a key.
loadPairFirstWins(key, val) ==
    IF ~LookupEnv(key).ok /\ key \notin DOMAIN envMap
    THEN Put(envMap, key, val)
    ELSE envMap

\* loadPair testing os.Getenv(key) == "" in place of os.LookupEnv: a key
\* set to the empty string counts as not set.
loadPairGetenv(key, val) ==
    IF LookupEnv(key).val = <<>> THEN Put(envMap, key, val) ELSE envMap

\* The overlay after a parsed pair: the pair goes in only when the key is
\* not in the process environment.
loadPair(key, val) ==
    IF ~LookupEnv(key).ok THEN Put(envMap, key, val) ELSE envMap

\* init up to the range loop: it returns at once when the executable's path
\* or the directory listing is not to be had.
initEnter ==
    /\ pc = "init"
    /\ IF exeErr \/ globErr
       THEN pc' = "run" /\ fileIdx' = fileIdx
       ELSE pc' = "open" /\ fileIdx' = 1
    /\ last' = Step("init", <<>>, <<>>, None)
    /\ UNCHANGED <<osEnv, envMap, exeErr, globErr, files, lineIdx, scanned,
                   setThroughout>>

\* openFile giving the scan up at a file that does not open (return in
\* place of continue).
openFileAbort ==
    /\ pc = "open"
    /\ fileIdx <= Len(files)
    /\ IF files[fileIdx].openable
       THEN pc' = "scan" /\ lineIdx' = 1 /\ fileIdx' = fileIdx
       ELSE pc' = "run" /\ lineIdx' = lineIdx /\ fileIdx' = fileIdx
    /\ last' = Step("open", <<>>, <<fileIdx>>, None)
    /\ UNCHANGED <<osEnv, envMap, exeErr, globErr, files, scanned,
                   setThroughout>>

\* os.Open of the next file: a file that does not open is passed over.
openFile ==
    /\ pc = "open"
    /\ fileIdx <= Len(files)
    /\ IF files[fileIdx].openable
       THEN pc' = "scan" /\ lineIdx' = 1 /\ fileIdx' = fileIdx
       ELSE pc' = "open" /\ lineIdx' = lineIdx /\ fileIdx' = fileIdx + 1
    /\ last' = Step("open", <<>>, <<fileIdx>>, None)
    /\ UNCHANGED <<osEnv, envMap, exeErr, globErr, files, scanned,
                   setThroughout>>

\* One turn of the scanner loop.
scanLine ==
    /\ pc = "scan"
    /\ lineIdx <= Len(files[fileIdx].lines)
    /\ LET text == files[fileIdx].lines[lineIdx]
           pair == parseLine(text)
       IN  /\ envMap' = IF pair.ok THEN loadPair(pair.key, pair.val)
                        ELSE envMap
           /\ scanned' = IF pair.ok
                         THEN scanned \cup
                              {[key |-> pair.key, val |-> pair.val,
                                inEnv |-> pair.key \in DOMAIN osEnv]}
                         ELSE scanned
           /\ last' = Step("scan", <<>>, <<text>>, pair)
    /\ lineIdx' = lineIdx + 1
    /\ UNCHANGED <<osEnv, exeErr, globErr, files, pc, fileIdx, setThroughout>>

\* scanner.Scan() returns false: on to the next file.
endOfFile ==
    /\ pc = "scan"
    /\ lineIdx > Len(files[fileIdx].lines)
    /\ pc' = "open"
    /\ fileIdx' = fileIdx + 1
    /\ last' = Step("eof", <<>>, <<fileIdx>>, None)
    /\ UNCHANGED <<osEnv, envMap, exeErr, globErr, files, lineIdx, scanned,
                   setThroughout>>

\* The range loop is over: init returns.
initReturn ==
    /\ pc = "open"
    /\ fileIdx > Len(files)
    /\ pc' = "run"
    /\ last' = Step("return", <<>>, <<>>, None)
    /\ UNCHANGED <<osEnv, envMap, exeErr, globErr, files, fileIdx, lineIdx,
                   scanned, setThroughout>>

-----------------------------------------------------------------------------
(* The host program changing the process environment (os.Setenv and        *)
(* os.Unsetenv, as the tests do), at any moment.                           *)

Setenv(key, val) ==
    /\ osEnv' = Put(osEnv, key, val)
    /\ last' = Step("Setenv", key, <<val>>, None)
    /\ UNCHANGED <<envMap, exeErr, globErr, files, pc, fileIdx, lineIdx,
                   scanned, setThroughout>>

Unsetenv(key) ==
    /\ key \in DOMAIN osEnv
    /\ osEnv' = [k \in DOMAIN osEnv \ {key} |-> osEnv[k]]
    /\ setThroughout' = IF pc = "run" THEN setThroughout
                        ELSE setThroughout \ {key}
    /\ last' = Step("Unsetenv", key, <<>>, None)
    /\ UNCHANGED <<envMap, exeErr, globErr, files, pc, fileIdx, lineIdx,
                   scanned>>

-----------------------------------------------------------------------------
(* The accessors.  Each is an operator from the arguments (and the state   *)
(* it reads) to its outcome: a returned value or a panic with the parts    *)
(* of its message.                                                         *)

Return(v) == [kind |-> "return", val |-> v]

\* panic(fmt.Sprintf("Environment variable %s <msg>: <text>", key, ...))
Panic(key, msg, text) ==
    [kind |-> "panic", key |-> key, msg |-> msg, text |-> text]

\* GetEnvString with the two lookups in the other order.
GetEnvStringOverlayFirst(key, defaultValue) ==
    IF key \in DOMAIN envMap THEN envMap[key]
    ELSE IF LookupEnv(key).ok THEN LookupEnv(key).val
    ELSE defaultValue

GetEnvString(key, defaultValue) ==
    IF LookupEnv(key).ok THEN LookupEnv(key).val
    ELSE IF key \in DOMAIN envMap THEN envMap[key]
    ELSE defaultValue

\* GetEnvArrayString trimming each piece.
GetEnvArrayStringTrimmed(key, split, defaultValue) ==
    LET val   == GetEnvString(key, <<>>)
        parts == Split(val, split)
    IN  IF val # <<>>
        THEN Return([i \in 1..Len(parts) |-> TrimSpace(parts[i])])
        ELSE Return(defaultValue)

GetEnvArrayString(key, split, defaultValue) ==
    LET val == GetEnvString(key, <<>>)
    IN  IF val # <<>> THEN Return(Split(val, split))
        ELSE Return(defaultValue)

\* GetEnvInt falling back to the default when the value does not parse.
GetEnvIntLenient(key, defaultValue) ==
    LET val == GetEnvString(key, <<>>)
        r   == Atoi(val)
    IN  IF val # <<>> /\ r.ok THEN Return(r.val) ELSE Return(defaultValue)

GetEnvInt(key, defaultValue) ==
    LET val == GetEnvString(key, <<>>)
        r   == Atoi(val)
    IN  IF val # <<>>
        THEN IF ~r.ok THEN Panic(key, "is not a valid integer", val)
             ELSE Return(r.val)
        ELSE Return(defaultValue)

GetEnvDuration(key, defaultValue) ==
    LET val == GetEnvString(key, <<>>)
        r   == ParseDuration(val)
    IN  IF val # <<>>
        THEN IF ~r.ok THEN Panic(key, "is not a valid duration", val)
             ELSE Return(r.val)
        ELSE Return(defaultValue)

\* GetEnvBool parsing whatever value is set, the empty string included.
GetEnvBoolParseEmpty(key, defaultValue) ==
    LET set == LookupEnv(key).ok \/ key \in DOMAIN envMap
        val == GetEnvString(key, <<>>)
        r   == ParseBool(val)
    IN  IF set
        THEN IF ~r.ok THEN Panic(key, "is not a valid boolean", val)
             ELSE Return(r.val)
        ELSE Return(defaultValue)

GetEnvBool(key, defaultValue) ==
    LET val == GetEnvString(key, <<>>)
        r   == ParseBool(val)
    IN  IF val # <<>>
        THEN IF ~r.ok THEN Panic(key, "is not a valid boolean", val)
             ELSE Return(r.val)
        ELSE Return(defaultValue)

GetEnvFloat64(key, defaultValue) ==
    LET val == GetEnvString(key, <<>>)
        r   == ParseFloat(val)
    IN  IF val # <<>>
        THEN IF ~r.ok THEN Panic(key, "is not a valid float64", val)
             ELSE Return(r.val)
        ELSE Return(defaultValue)

\* arrayIntLoop passing over an element that does not parse.
RECURSIVE arrayIntLoopSkip(_, _, _)
arrayIntLoopSkip(key, stringValues, intValues) ==
    IF stringValues = <<>> THEN Return(intValues)
    ELSE LET r == Atoi(Head(stringValues))
         IN  arrayIntLoopSkip(key, Tail(stringValues),
                              IF r.ok THEN Append(intValues, r.val)
                              ELSE intValues)

\* The range loop of GetEnvArrayInt.
RECURSIVE arrayIntLoop(_, _, _)
arrayIntLoop(key, stringValues, intValues) ==
    IF stringValues = <<>> THEN Return(intValues)
    ELSE LET str == Head(stringValues)
             r   == Atoi(str)
         IN  IF ~r.ok
             THEN Panic(key, "array contains an invalid integer", str)
             ELSE arrayIntLoop(key, Tail(stringValues),
                               Append(intValues, r.val))

GetEnvArrayInt(key, split, defaultValue) ==
    LET val == GetEnvString(key, <<>>)
    IN  IF val # <<>> THEN arrayIntLoop(key, Split(val, split), <<>>)
        ELSE Return(defaultValue)

\* The range loop of GetEnvArrayDuration.
RECURSIVE arrayDurationLoop(_, _, _)
arrayDurationLoop(key, stringValues, durationValues) ==
    IF stringValues = <<>> THEN Return(durationValues)
    ELSE LET str == Head(stringValues)
             r   == ParseDuration(str)
         IN  IF ~r.ok
             THEN Panic(key, "array contains an invalid duration", str)
             ELSE arrayDurationLoop(key, Tail(stringValues),
                                    Append(durationValues, r.val))

GetEnvArrayDuration(key, split, defaultValue) ==
    LET val == GetEnvString(key, <<>>)
    IN  IF val # <<>> THEN arrayDurationLoop(key, Split(val, split), <<>>)
        ELSE Return(defaultValue)

\* mapLoop storing the two parts as they are, untrimmed.
RECURSIVE mapLoopNoTrim(_, _, _, _)
mapLoopNoTrim(key, entries, kvDelimiter, result) ==
    IF entries = <<>> THEN Return(result)
    ELSE LET entry == Head(entries)
             kv    == SplitN(entry, kvDelimiter, 2)
         IN  IF Len(kv) # 2
             THEN Panic(key, "contains invalid map entry", entry)
             ELSE mapLoopNoTrim(key, Tail(entries), kvDelimiter,
                                Put(result, kv[1], kv[2]))

\* The range loop of GetEnvMapStringString.
RECURSIVE mapLoop(_, _, _, _)
mapLoop(key, entries, kvDelimiter, result) ==
    IF entries = <<>> THEN Return(result)
    ELSE LET entry == Head(entries)
             kv    == SplitN(entry, kvDelimiter, 2)
         IN  IF Len(kv) # 2
             THEN Panic(key, "contains invalid map entry", entry)
             ELSE mapLoop(key, Tail(entries), kvDelimiter,
                          Put(result, TrimSpace(kv[1]), TrimSpace(kv[2])))

GetEnvMapStringString(key, entryDelimiter, kvDelimiter, defaultValue) ==
    LET val == GetEnvString(key, <<>>)
    IN  IF val # <<>>
        THEN mapLoop(key, Split(val, entryDelimiter), kvDelimiter, EmptyMap)
        ELSE Return(defaultValue)

-----------------------------------------------------------------------------
(* A call of an accessor by the host program, once init has returned.  A   *)
(* panic is recorded as the call's outcome; what the host does after it    *)
(* (recover, as a test does, or die) is the host's business.               *)

\* Call remembering in the overlay the name it was asked for.
CallMemo(op, key, args, out) ==
    /\ pc = "run"
    /\ last' = Step(op, key, args, out)
    /\ envMap' = IF key \in DOMAIN envMap THEN envMap
                 ELSE Put(envMap, key, <<>>)
    /\ UNCHANGED <<osEnv, exeErr, globErr, files, pc, fileIdx, lineIdx,
                   scanned, setThroughout>>

Call(op, key, args, out) ==
    /\ pc = "run"
    /\ last' = Step(op, key, args, out)
    /\ UNCHANGED <<osEnv, envMap, exeErr, globErr, files, pc, fileIdx,
                   lineIdx, scanned, setThroughout>>

GetEnvStringCall(key, def) ==
    Call("GetEnvString", key, <<def>>, Return(GetEnvString(key, def)))

GetEnvArrayStringCall(key, split, def) ==
    Call("GetEnvArrayString", key, <<split, def>>,
         GetEnvArrayString(key, split, def))

GetEnvIntCall(key, def) ==
    Call("GetEnvInt", key, <<def>>, GetEnvInt(key, def))

GetEnvDurationCall(key, def) ==
    Call("GetEnvDuration", key, <<def>>, GetEnvDuration(key, def))

GetEnvBoolCall(key, def) ==
    Call("GetEnvBool", key, <<def>>, GetEnvBool(key, def))

GetEnvFloat64Call(key, def) ==
    Call("GetEnvFloat64", key, <<def>>, GetEnvFloat64(key, def))

GetEnvArrayIntCall(key, split, def) ==
    Call("GetEnvArrayInt", key, <<split, def>>,
         GetEnvArrayInt(key, split, def))

GetEnvArrayDurationCall(key, split, def) ==
    Call("GetEnvArrayDuration", key, <<split, def>>,
         GetEnvArrayDuration(key, split, def))

GetEnvMapStringStringCall(key, entryDelimiter, kvDelimiter, def) ==
    Call("GetEnvMapStringString", key, <<entryDelimiter, kvDelimiter, def>>,
         GetEnvMapStringString(key, entryDelimiter, kvDelimiter, def))

-----------------------------------------------------------------------------
(* Specifications.                                                         *)

\* The state as func init is entered.
Start(env, exe, glob, fs) ==
    /\ osEnv = env
    /\ envMap = EmptyMap
    /\ exeErr = exe
    /\ globErr = glob
    /\ files = fs
    /\ pc = "init"
    /\ fileIdx = 0
    /\ lineIdx = 0
    /\ last = Step("start", <<>>, <<>>, None)
    /\ scanned = {}
    /\ setThroughout = DOMAIN env

\* Spec: one readable file, and a host that calls every accessor.
Init == Start(EmptyMap, FALSE, FALSE, <<FileOne>>)

Scan == initEnter \/ openFile \/ scanLine \/ endOfFile \/ initReturn

Next ==
    \/ initEnter
    \/ openFile
    \/ scanLine
    \/ endOfFile
    \/ initReturn
    \/ \E key \in EnvKeys, val \in EnvValues : Setenv(key, val)
    \/ \E key \in EnvKeys : Unsetenv(key)
    \/ \E key \in EnvKeys, def \in StringDefaults :
           GetEnvStringCall(key, def)
    \/ \E key \in EnvKeys, split \in Delimiters, def \in ArrayStringDefaults :
           GetEnvArrayStringCall(key, split, def)
    \/ \E key \in EnvKeys, def \in IntDefaults : GetEnvIntCall(key, def)
    \/ \E key \in EnvKeys, def \in DurationDefaults :
           GetEnvDurationCall(key, def)
    \/ \E key \in EnvKeys, def \in BoolDefaults : GetEnvBoolCall(key, def)
    \/ \E key \in EnvKeys, def \in FloatDefaults :
           GetEnvFloat64Call(key, def)
    \/ \E key \in EnvKeys, split \in Delimiters, def \in ArrayIntDefaults :
           GetEnvArrayIntCall(key, split, def)
    \/ \E key \in EnvKeys, split \in Delimiters,
          def \in ArrayDurationDefaults :
           GetEnvArrayDurationCall(key, split, def)
    \/ \E key \in EnvKeys, entryDelimiter \in Delimiters,
          kvDelimiter \in Delimiters, def \in MapDefaults :
           GetEnvMapStringStringCall(key, entryDelimiter, kvDelimiter, def)

Spec == Init /\ [][Next]_vars

\* SpecScan: every directory of up to MaxFiles files, a host that changes
\* the environment while init runs, and only the string accessor after it.
ScanEnvValues == { <<>>, <<"x">> }

InitialEnvs ==
    { EmptyMap,
      [k \in {KeyA} |-> <<"1">>],
      [k \in {KeyB} |-> <<>>],
      [k \in EnvKeys |-> <<"x">>] }

\* The names a file can define: those of the host and the empty name.
ScanKeys == EnvKeys \cup { <<>> }

InitScan ==
    \E env \in InitialEnvs, exe \in BOOLEAN, glob \in BOOLEAN,
       fs \in SeqsUpTo(FilePool, MaxFiles) :
        /\ ~(exe /\ glob)
        /\ Start(env, exe, glob, fs)

NextScan ==
    \/ initEnter
    \/ openFile
    \/ scanLine
    \/ endOfFile
    \/ initReturn
    \/ \E key \in EnvKeys, val \in ScanEnvValues : Setenv(key, val)
    \/ \E key \in EnvKeys : Unsetenv(key)
    \/ \E key \in ScanKeys, def \in StringDefaults :
           GetEnvStringCall(key, def)

SpecScan == InitScan /\ [][NextScan]_vars

-----------------------------------------------------------------------------
(* Properties.  They read the outcome of the step taken last (last) against *)
(* the state it was taken in: an accessor changes neither layer, so after   *)
(* a call osEnv and envMap are still the ones the call read.                *)

ScalarOps == {"GetEnvInt", "GetEnvBool", "GetEnvFloat64", "GetEnvDuration"}

ArrayOps == {"GetEnvArrayString", "GetEnvArrayInt", "GetEnvArrayDuration"}

AccessorOps ==
    {"GetEnvString", "GetEnvMapStringString"} \cup ScalarOps \cup ArrayOps

\* The default a call was given: its last argument.
DefaultOf(step) == step.args[Len(step.args)]

\* The raw value the two layers hold for a name, "" when neither holds it.
Resolved(key) ==
    IF key \in DOMAIN osEnv THEN osEnv[key]
    ELSE IF key \in DOMAIN envMap THEN envMap[key]
    ELSE <<>>

\* The conversion an accessor applies to a value or to an element.
Convert(op, str) ==
    CASE op \in {"GetEnvInt", "GetEnvArrayInt"}           -> Atoi(str)
      [] op = "GetEnvBool"                                -> ParseBool(str)
      [] op = "GetEnvFloat64"                             -> ParseFloat(str)
      [] op \in {"GetEnvDuration", "GetEnvArrayDuration"} -> ParseDuration(str)

\* C1: GetEnvString(K, D) returns the process-environment value of K when K
\* is set there (the empty string included), otherwise the overlay value of
\* K when the overlay holds K, otherwise D.
C1_StringResolution ==
    last.op = "GetEnvString" =>
        last.out = Return(IF last.key \in DOMAIN osEnv THEN osEnv[last.key]
                          ELSE IF last.key \in DOMAIN envMap
                               THEN envMap[last.key]
                          ELSE DefaultOf(last))

\* C1 happens: K is in both layers, empty in the process environment and
\* not in the overlay, and GetEnvString returned the empty string, not the
\* overlay's value or the default.
C1_Witness ==
    /\ last.op = "GetEnvString"
    /\ last.key \in DOMAIN osEnv \cap DOMAIN envMap
    /\ osEnv[last.key] = <<>>
    /\ envMap[last.key] # <<>>
    /\ DefaultOf(last) # <<>>
    /\ last.out = Return(<<>>)

\* C2: for GetEnvInt, GetEnvBool, GetEnvFloat64 and GetEnvDuration, a
\* resolved value that is non-empty and fails the conversion ends the call
\* in a panic naming the key; no value is returned.
C2_MalformedIsFatal ==
    (/\ last.op \in ScalarOps
     /\ Resolved(last.key) # <<>>
     /\ ~Convert(last.op, Resolved(last.key)).ok)
    => /\ last.out.kind = "panic"
       /\ last.out.key = last.key
       /\ last.out.text = Resolved(last.key)

\* C2 happens: GetEnvInt panicked on a malformed value that came from the
\* overlay.
C2_Witness ==
    /\ last.op = "GetEnvInt"
    /\ last.key \notin DOMAIN osEnv
    /\ last.key \in DOMAIN envMap
    /\ ~Atoi(envMap[last.key]).ok
    /\ last.out.kind = "panic"

\* C3: with K in neither layer every accessor returns the caller's default;
\* and every accessor but GetEnvString returns it also when the resolved
\* value is the empty string, converting nothing and never panicking.
C3_DefaultWhenAbsentOrEmpty ==
    /\ (/\ last.op \in AccessorOps
        /\ last.key \notin DOMAIN osEnv
        /\ last.key \notin DOMAIN envMap)
       => last.out = Return(DefaultOf(last))
    /\ (/\ last.op \in AccessorOps \ {"GetEnvString"}
        /\ Resolved(last.key) = <<>>)
       => last.out = Return(DefaultOf(last))

\* C3 happens: the process environment holds K as "" over a non-empty
\* overlay value, and GetEnvBool returned its default TRUE.
C3_Witness ==
    /\ last.op = "GetEnvBool"
    /\ last.key \in DOMAIN osEnv \cap DOMAIN envMap
    /\ osEnv[last.key] = <<>>
    /\ envMap[last.key] # <<>>
    /\ last.out = Return(TRUE)

\* C4: the overlay holds K only if init scanned a line defining K while K
\* was not in the process environment, and the overlay's value is that
\* line's; a name set in the process environment all through the scan is
\* never in the overlay.
C4_OverlayAdmission ==
    /\ \A k \in DOMAIN envMap :
           \E r \in scanned : r.key = k /\ r.val = envMap[k] /\ ~r.inEnv
    /\ setThroughout \cap DOMAIN envMap = {}

\* C4 happens: the scan is over, it met a line defining a name that was set
\* all through it and left that name out, and it let another name in.
C4_Witness ==
    /\ pc = "run"
    /\ \E r \in scanned :
           r.inEnv /\ r.key \in setThroughout /\ r.key \notin DOMAIN envMap
    /\ DOMAIN envMap # {}

ScanOps == {"init", "open", "scan", "eof", "return"}

\* C5 as a condition on one step.
ReadsOnly ==
    /\ last'.op \in AccessorOps \cup ScanOps => osEnv' = osEnv
    /\ last'.op \in AccessorOps => envMap' = envMap
    /\ (/\ last.op \in AccessorOps
        /\ last'.op = last.op
        /\ last'.key = last.key
        /\ last'.args = last.args)
       => last'.out = last.out

\* C5: no step of the scan and no accessor call changes the process
\* environment, no accessor call (returning or panicking) changes the
\* overlay, and a call repeated at once with the same arguments has the
\* same outcome.
C5_ReadsOnly == [][ReadsOnly]_vars

\* C5 happens: an accessor has panicked with both layers holding entries,
\* and the overlay still holds just what the scan put there.
C5_Witness ==
    /\ last.op \in AccessorOps
    /\ last.out.kind = "panic"
    /\ DOMAIN osEnv # {}
    /\ DOMAIN envMap # {}
    /\ \A k \in DOMAIN envMap :
           \E r \in scanned : r.key = k /\ r.val = envMap[k]

-----------------------------------------------------------------------------
(* What "split on a delimiter" and "trimmed" mean, said without the        *)
(* library's loops, for a delimiter of one character.                      *)

SetMin(S) == CHOOSE x \in S : \A y \in S : x <= y

SetMax(S) == CHOOSE x \in S : \A y \in S : x >= y

\* s without the blanks before its first and after its last non-blank.
Trimmed(s) ==
    LET inked == {i \in 1..Len(s) : s[i] \notin {" ", "\t"}}
    IN  IF inked = {} THEN <<>> ELSE SubSeq(s, SetMin(inked), SetMax(inked))

\* The positions of s that hold the delimiter.
Cuts(s, delim) == {i \in 1..Len(s) : <<s[i]>> = delim}

\* The stretches of s between one delimiter and the next, in order.
Pieces(s, delim) ==
    LET cuts   == Cuts(s, delim)
        n      == Cardinality(cuts) + 1
        cut(k) == CHOOSE c \in cuts : Cardinality({d \in cuts : d <= c}) = k
    IN  [k \in 1..n |->
            SubSeq(s, IF k = 1 THEN 1 ELSE cut(k - 1) + 1,
                      IF k = n THEN Len(s) ELSE cut(k) - 1)]

\* The text of an entry before and after its first key/value delimiter.
Before(entry, delim) == SubSeq(entry, 1, SetMin(Cuts(entry, delim)) - 1)

After(entry, delim) ==
    SubSeq(entry, SetMin(Cuts(entry, delim)) + 1, Len(entry))

\* C6: for GetEnvArrayInt and GetEnvArrayDuration with a non-empty resolved
\* value, either every piece of the value parses and the result is the
\* parsed pieces in order, one per piece, or the call panics naming the key
\* and the first piece that does not parse.
C6_ArrayAllOrFatal ==
    (/\ last.op \in {"GetEnvArrayInt", "GetEnvArrayDuration"}
     /\ Resolved(last.key) # <<>>)
    => LET parts == Pieces(Resolved(last.key), last.args[1])
           bad   == {i \in 1..Len(parts) : ~Convert(last.op, parts[i]).ok}
       IN  IF bad = {}
           THEN last.out = Return([i \in 1..Len(parts) |->
                                      Convert(last.op, parts[i]).val])
           ELSE /\ last.out.kind = "panic"
                /\ last.out.key = last.key
                /\ last.out.text = parts[SetMin(bad)]

\* C6 happens: GetEnvArrayInt met "1,x,y" split on "," and panicked naming
\* "x", the first of the two pieces that do not parse.
C6_Witness ==
    /\ last.op = "GetEnvArrayInt"
    /\ Resolved(last.key) = <<"1", ",", "x", ",", "y">>
    /\ last.args[1] = <<",">>
    /\ last.out.kind = "panic"
    /\ last.out.text = <<"x">>

C8_ExactlyOneDelimiter ==
    (/\ last.op = "GetEnvMapStringString"
     /\ Resolved(last.key) # <<>>
     /\ LET entries == Pieces(Resolved(last.key), last.args[1])
        IN  \E i \in 1..Len(entries) :
                Cardinality(Cuts(entries[i], last.args[2])) # 1)
    => last.out.kind = "panic"

\* C9 as the claim words it: GetEnvArrayString with a non-empty resolved
\* value returns the pieces of the value, each trimmed.
C9_TrimmedPieces ==
    (/\ last.op = "GetEnvArrayString"
     /\ Resolved(last.key) # <<>>)
    => LET parts == Pieces(Resolved(last.key), last.args[1])
       IN  last.out = Return([i \in 1..Len(parts) |-> Trimmed(parts[i])])

\* C9, amended: GetEnvArrayString with a non-empty resolved value returns
\* the pieces of the value in order, each as it stands in the value, blanks
\* included; it never panics.
C9_VerbatimPieces ==
    /\ last.op = "GetEnvArrayString" => last.out.kind = "return"
    /\ (/\ last.op = "GetEnvArrayString"
        /\ Resolved(last.key) # <<>>)
       => last.out = Return(Pieces(Resolved(last.key), last.args[1]))

\* C9 happens: GetEnvArrayString returned a piece that begins or ends with
\* a blank.
C9_Witness ==
    /\ last.op = "GetEnvArrayString"
    /\ Resolved(last.key) # <<>>
    /\ last.out.kind = "return"
    /\ \E i \in 1..Len(last.out.val) :
           last.out.val[i] # Trimmed(last.out.val[i])

\* C10 as a condition on one step: what a turn of the scanner loop makes of
\* the line it reads.
LineRule ==
    last'.op = "scan" =>
        LET text == last'.args[1]
            line == Trimmed(text)
            eqs  == Cuts(line, <<"=">>)
            key  == Trimmed(SubSeq(line, 1, SetMin(eqs) - 1))
            val  == Trimmed(SubSeq(line, SetMin(eqs) + 1, Len(line)))
        IN  /\ pc = "scan"
            /\ text = files[fileIdx].lines[lineIdx]
            /\ IF line = <<>> \/ line[1] = "#" \/ eqs = {}
               THEN ~last'.out.ok /\ envMap' = envMap
               ELSE /\ last'.out = [ok |-> TRUE, key |-> key, val |-> val]
                    /\ envMap' \in {envMap, Put(envMap, key, val)}

\* C10: init trims each line; a blank line, a line beginning with "#" and a
\* line without "=" leave the overlay as it is; any other line is cut at
\* its first "=" into the trimmed text before it, the key, and the trimmed
\* rest, the value, and only that pair may enter the overlay.
C10_LineRule == [][LineRule]_vars

\* C10 happens: a line with blanks around it and a second "=" in its value
\* was read, and its pair, the value holding "=", is in the overlay.
C10_Witness ==
    /\ last.op = "scan"
    /\ last.args[1] # Trimmed(last.args[1])
    /\ last.out.ok
    /\ Cuts(last.out.val, <<"=">>) # {}
    /\ last.out.key \in DOMAIN envMap
    /\ envMap[last.out.key] = last.out.val

-----------------------------------------------------------------------------
(* The definitions the files hold, read off the files themselves.          *)

\* The pair a line defines, by the grammar of a line.
Defined(text) ==
    LET line == Trimmed(text)
        eqs  == Cuts(line, <<"=">>)
    IN  IF line = <<>> \/ line[1] = "#" \/ eqs = {}
        THEN [ok |-> FALSE, key |-> <<>>, val |-> <<>>]
        ELSE [ok |-> TRUE,
              key |-> Trimmed(SubSeq(line, 1, SetMin(eqs) - 1)),
              val |-> Trimmed(SubSeq(line, SetMin(eqs) + 1, Len(line)))]

\* The places <<file, line>> of the lines of the files that open.
Places ==
    UNION {{<<f, l>> : l \in 1..Len(files[f].lines)} :
               f \in {g \in 1..Len(files) : files[g].openable}}

LineAt(p) == files[p[1]].lines[p[2]]

\* The places that define key, and the one of them scanned last.
PlacesOf(key) ==
    {p \in Places : Defined(LineAt(p)).ok /\ Defined(LineAt(p)).key = key}

Earlier(p, q) == p[1] < q[1] \/ (p[1] = q[1] /\ p[2] <= q[2])

LastPlaceOf(key) ==
    CHOOSE p \in PlacesOf(key) : \A q \in PlacesOf(key) : Earlier(q, p)

\* The names init found out of the process environment every time it
\* scanned a line defining them.
AbsentWhenScanned ==
    {r.key : r \in {x \in scanned : \A y \in scanned :
                                        y.key = x.key => ~y.inEnv}}

\* C11: once the scan is over, a name that was out of the process
\* environment whenever a line defining it was scanned has in the overlay
\* the value of the last line that defines it, in the order of the scan:
\* a later line or a later file replaces an earlier one.
C11_LastDefinitionWins ==
    pc = "run" =>
        \A key \in AbsentWhenScanned :
            /\ key \in DOMAIN envMap
            /\ envMap[key] = Defined(LineAt(LastPlaceOf(key))).val

\* C11 happens: the scan is over, A is defined in two files with different
\* values and again on a later line of the second file, and the overlay
\* holds the value of that last line.
C11_Witness ==
    /\ pc = "run"
    /\ KeyA \in AbsentWhenScanned
    /\ \E p, q \in PlacesOf(KeyA) :
           /\ p[1] < q[1]
           /\ Defined(LineAt(p)).val # Defined(LineAt(q)).val
    /\ \E p, q \in PlacesOf(KeyA) :
           /\ p[1] = q[1]
           /\ p[2] < q[2]
           /\ q = LastPlaceOf(KeyA)
           /\ Defined(LineAt(p)).val # Defined(LineAt(q)).val
    /\ envMap[KeyA] = Defined(LineAt(LastPlaceOf(KeyA))).val

\* The pairs the lines of the files that open define.
DefinedPairs ==
    {[key |-> Defined(LineAt(p)).key, val |-> Defined(LineAt(p)).val] :
         p \in {q \in Places : Defined(LineAt(q)).ok}}

\* C12: init has no fatal end: it is at its entry, at the head of the range
\* loop with a file or the end of the list before it, in the scanner loop
\* of a file that opened with a line or the end of the file before it (a
\* step of init is possible in each), or returned.  When it has returned: with the executable's path or the directory listing not
\* to be had the overlay is empty; otherwise every pair defined in a file
\* that opens was scanned, no pair came from anywhere else (a file that
\* does not open gives none), and the overlay holds just the names that
\* were scanned while out of the process environment.
C12_ScanNeverFatal ==
    /\ pc \in {"init", "open", "scan", "run"}
    /\ pc = "open" => fileIdx \in 1..(Len(files) + 1)
    /\ pc = "scan" => /\ fileIdx \in 1..Len(files)
                      /\ files[fileIdx].openable
                      /\ lineIdx \in 1..(Len(files[fileIdx].lines) + 1)
    /\ (pc = "run" /\ (exeErr \/ globErr)) => envMap = EmptyMap
    /\ (pc = "run" /\ ~exeErr /\ ~globErr) =>
           /\ {[key |-> r.key, val |-> r.val] : r \in scanned} = DefinedPairs
           /\ DOMAIN envMap = {r.key : r \in {x \in scanned : ~x.inEnv}}

\* C12 happens: the first file found did not open, the second did, init
\* has returned and the overlay holds what the second file defines.
C12_Witness ==
    /\ pc = "run"
    /\ Len(files) >= 2
    /\ ~files[1].openable
    /\ files[2].openable
    /\ DefinedPairs # {}
    /\ \A d \in DefinedPairs :
           d.key \in DOMAIN envMap /\ \E p \in Places : p[1] = 2 /\
               Defined(LineAt(p)).key = d.key

\* The names init found in the process environment every time it scanned
\* a line defining them.
SetWhenScanned ==
    {r.key : r \in {x \in scanned : \A y \in scanned :
                                        y.key = x.key => y.inEnv}}

\* C13: a name defined in a scanned file that was in the process
\* environment whenever a line defining it was scanned is never served from
\* the file: whenever it is out of the process environment afterwards,
\* every accessor returns the caller's default for it.
C13_NeverServedFromFile ==
    (/\ last.op \in AccessorOps
     /\ last.key \in SetWhenScanned
     /\ last.key \notin DOMAIN osEnv)
    => last.out = Return(DefaultOf(last))

\* C13 happens: the file defines A as "1m", A was in the process
\* environment when that line was scanned and has been unset since, and
\* GetEnvDuration returned its default of 30s for A.
C13_Witness ==
    /\ last.op = "GetEnvDuration"
    /\ last.key = KeyA
    /\ KeyA \in SetWhenScanned
    /\ \E r \in scanned : r.key = KeyA /\ r.val = <<"1", "m">>
    /\ KeyA \notin DOMAIN osEnv
    /\ last.out = Return([neg |-> FALSE, d |-> <<0, 0, 30, 0, 0, 0>>])

=============================================================================
